---- MODULE Spec2Model ----
(***************************************************************************)
(* A model of SeasonMetricsCompareAtGame.py: the single-instance guard     *)
(* (flock on process.lock), the configuration store, the orchestration     *)
(* loop of main() over the tracked pairs and diffs, and the metrics        *)
(* functions (get_wins_after_games, get_season_games_played,               *)
(* generate_plot, generate_chart, post_plot_to_bluesky).                   *)
(***************************************************************************)
EXTENDS Integers, Sequences, FiniteSets, TLC

\* ------------------------------------------------------------------ bounds
NumProcs == 2      \* invocations of main(), each a process of its own
LongestSeason == 163   \* games of the longest season the provider returns

\* ------------------------------------------------------- program constants
TOTAL_GAMES_MODERN == 162
TOTAL_GAMES_OLDEN == 154
OAK_2023_DIFF == -339
BOS_1932_DIFF == -349
EXIT_LOCKED == 1

Procs == 1..NumProcs

\* The trackers of the configuration document, config['pairs'] first and
\* config['diffs'] after them.
TrackerKinds == <<"pair", "pair", "diff">>
NumTrackers == Len(TrackerKinds)
Trackers == 1..NumTrackers
IsPair(t) == TrackerKinds[t] = "pair"
NumPairs == Cardinality({t \in Trackers : IsPair(t)})

\* ---------------------------------------------------- season data provider
\* Python None in the 'W-L' column of a game that has not been played.
NoneRecord == <<>>

DigitChars == <<"0", "1", "2", "3", "4", "5", "6", "7", "8", "9">>

RECURSIVE FormatInt(_)
\* str(n) for n >= 0, as a sequence of characters.
FormatInt(n) ==
    IF n < 10 THEN <<DigitChars[n + 1]>>
    ELSE Append(FormatInt(n \div 10), DigitChars[(n % 10) + 1])

\* Cumulative wins of the season `s` after game i: the team loses its first
\* s.lossStreak games and wins the others.
SeasonWins(s, i) == IF i > s.lossStreak THEN i - s.lossStreak ELSE 0

\* The DataFrame schedule_and_record returns for season `s`: rows 1..total,
\* 'W-L' the cumulative record "W-L" of a played game and None otherwise,
\* 'R' and 'RA' the runs of each game.
schedule_and_record(s) ==
    [WL |-> [i \in 1..(s.played + s.pending) |->
                IF i <= s.played
                THEN FormatInt(SeasonWins(s, i)) \o <<"-">>
                        \o FormatInt(i - SeasonWins(s, i))
                ELSE NoneRecord],
     R  |-> [i \in 1..(s.played + s.pending) |-> IF i <= s.played THEN s.r ELSE 0],
     RA |-> [i \in 1..(s.played + s.pending) |-> IF i <= s.played THEN s.ra ELSE 0]]

\* ------------------------------------------------------------ pure helpers
CharValue(c) == CHOOSE d \in 0..9 : DigitChars[d + 1] = c

RECURSIVE ParseInt(_)
\* int(text) for a sequence of decimal digits.
ParseInt(text) ==
    IF Len(text) = 1 THEN CharValue(text[1])
    ELSE 10 * ParseInt(SubSeq(text, 1, Len(text) - 1)) + CharValue(text[Len(text)])

\* record.split('-')[0]
SplitFirst(record) ==
    LET dash == CHOOSE k \in 1..(Len(record) + 1) :
                    /\ k = Len(record) + 1 \/ record[k] = "-"
                    /\ \A j \in 1..(k - 1) : record[j] # "-"
    IN SubSeq(record, 1, dash - 1)

get_wins(record) == ParseInt(SplitFirst(record))

get_wins_after_games(team_season_data, games_played) ==
    IF games_played < 1 \/ games_played > TOTAL_GAMES_MODERN THEN 0
    ELSE get_wins(team_season_data.WL[games_played])

get_season_games_played(team_season_data) ==
    Cardinality({k \in DOMAIN team_season_data.WL :
                    team_season_data.WL[k] # NoneRecord})

\* The range check with the second season's count left out.
PairOutOfRangeFirstOnly(games_played, the_last, this_time) ==
    \/ games_played < 1
    \/ games_played > get_season_games_played(the_last)

\* The range check of the orchestration loop for a pair (line 337).
PairOutOfRange(games_played, the_last, this_time) ==
    \/ games_played < 1
    \/ games_played > get_season_games_played(the_last)
    \/ games_played > get_season_games_played(this_time)

\* The range check of the orchestration loop for a diff (line 373).
DiffOutOfRange(games_played, diff_data) ==
    \/ games_played < 1
    \/ games_played > get_season_games_played(diff_data)

\* ------------------------------------------------------------------ metrics
\* generate_plot: the two win series for games 1..games_played and their
\* last elements (the image itself is opaque).
generate_plot(games_played, the_last, this_time) ==
    LET y1 == [x \in 1..games_played |-> get_wins_after_games(the_last, x)]
        y2 == [x \in 1..games_played |-> get_wins_after_games(this_time, x)]
    IN [y1 |-> y1, y2 |-> y2,
        y1_last |-> y1[games_played], y2_last |-> y2[games_played]]

\* Cell values of the metrics table.  A number is the rational num/den, the
\* string "---" is the 'not applicable' sentinel.
Number(n, d) == [kind |-> "number", num |-> n, den |-> d]
Sentinel == [kind |-> "str", num |-> 0, den |-> 1]
NaN == [kind |-> "nan", num |-> 0, den |-> 1]

\* numpy division: 0/0 is nan, x/0 is +-inf (no exception is raised).
Divide(n, d) ==
    IF d = 0 THEN (IF n = 0 THEN NaN ELSE [kind |-> "inf", num |-> n, den |-> 1])
    ELSE Number(n, d)

\* round(x, 4) of the rational n/d (d > 0), in units of 10^-4, ties to even.
RoundRational(n, d) ==
    LET whole == n \div d
        rest  == n % d
        scaled == rest * 10000
        q == scaled \div d
        r == scaled % d
        up == \/ 2 * r > d
              \/ 2 * r = d /\ q % 2 = 1
    IN whole * 10000 + q + (IF up THEN 1 ELSE 0)

\* The builtin round(value, 4): a str has no __round__ (TypeError).
Round(value) ==
    CASE value.kind = "str" -> [status |-> "TypeError", units |-> 0]
      [] value.kind = "number" ->
            [status |-> "ok", units |-> RoundRational(value.num, value.den)]
      [] OTHER -> [status |-> value.kind, units |-> 0]

RECURSIVE SumRows(_, _, _)
\* the sum of column[lo..hi], halving the range.
SumRows(column, lo, hi) ==
    IF lo > hi THEN 0
    ELSE IF lo = hi THEN column[lo]
    ELSE LET mid == (lo + hi) \div 2
         IN SumRows(column, lo, mid) + SumRows(column, mid + 1, hi)

\* column.loc[:n].sum(): the rows labelled 1..n (those that exist).
SumTo(column, n) ==
    SumRows(column, 1, IF n > Len(column) THEN Len(column) ELSE n)

\* games remaining to a season of `total` games (lines 134 and 136).
games_remaining(total, games_played) ==
    IF total > games_played THEN total - games_played ELSE 0

\* the differential per remaining game needed to end at `target` (lines 138-142).
required_diff(target, run_diff, remaining) ==
    IF remaining > 0 THEN Divide(target - run_diff, remaining) ELSE Sentinel

\* generate_chart up to the construction of the table's "Value" column, where
\* every figure goes through round(): status is "TypeError" when that raises.
generate_chart(diff_data, games_played) ==
    LET runs_scored == SumTo(diff_data.R, games_played)
        runs_allowed == SumTo(diff_data.RA, games_played)
        run_diff == runs_scored - runs_allowed
        run_diff_per_game == Divide(run_diff, games_played)
        games_remaining_modern == games_remaining(TOTAL_GAMES_MODERN, games_played)
        games_remaining_olden == games_remaining(TOTAL_GAMES_OLDEN, games_played)
        modern_record == required_diff(OAK_2023_DIFF, run_diff, games_remaining_modern)
        olden_record == required_diff(BOS_1932_DIFF, run_diff, games_remaining_olden)
        olden_record_modern_games ==
            required_diff(BOS_1932_DIFF, run_diff, games_remaining_modern)
        current_wins == get_wins_after_games(diff_data, games_played)
        current_win_percentage == Divide(current_wins, games_played)
        pythagorean_win_percentage ==
            Divide(runs_scored * runs_scored,
                   runs_scored * runs_scored + runs_allowed * runs_allowed)
        pythagorean_wins ==
            IF pythagorean_win_percentage.kind = "number"
            THEN Number(pythagorean_win_percentage.num * games_played,
                        pythagorean_win_percentage.den)
            ELSE pythagorean_win_percentage
        \* runs ** 1.83 is not a rational: the Baseball-Reference figures are
        \* kept as the pair of run totals they are computed from.
        pythagorean_win_percentage_br ==
            IF runs_scored = 0 /\ runs_allowed = 0 THEN NaN
            ELSE [kind |-> "power183", num |-> runs_scored, den |-> runs_allowed]
        figures == <<run_diff_per_game, modern_record, olden_record,
                     olden_record_modern_games, current_win_percentage,
                     pythagorean_win_percentage, pythagorean_wins,
                     pythagorean_win_percentage_br>>
        rounded == [k \in 1..Len(figures) |-> Round(figures[k])]
    IN IF \E k \in 1..Len(figures) : rounded[k].status = "TypeError"
       THEN [status |-> "TypeError"]
       ELSE [status |-> "ok",
             run_diff |-> run_diff,
             rd_per_game |-> rounded[1],
             rd_match_2023OAK |-> rounded[2],
             rd_match_1932BOS |-> rounded[3],
             rd_match_1932BOS_154 |-> rounded[4],
             g_remaining_162 |-> games_remaining_modern,
             g_remaining_154 |-> games_remaining_olden,
             actual_w_pct |-> rounded[5],
             actual_w |-> current_wins,
             pythag_w_pct |-> rounded[6],
             pythag_w |-> rounded[7],
             pythag_w_pct_br |-> rounded[8]]

\* The caption post_plot_to_bluesky builds, and the alt text's two win counts.
post_plot_caption(games_played, y1_last, y2_last) ==
    IF y1_last > y2_last
    THEN [branch |-> "worse", games |-> games_played, wins |-> y2_last,
          margin |-> y1_last - y2_last, altA |-> y1_last, altB |-> y2_last]
    ELSE IF y1_last < y2_last
    THEN [branch |-> "ahead", games |-> games_played, wins |-> y2_last,
          margin |-> y2_last - y1_last, altA |-> y1_last, altB |-> y2_last]
    ELSE [branch |-> "neutral", games |-> games_played, wins |-> y1_last,
          margin |-> 0, altA |-> y1_last, altB |-> y2_last]

\* ------------------------------------------------------------------- state
VARIABLES
    cfgFault,    \* what is wrong with the configuration document, if anything
    badTracker,  \* the tracker that lacks a field (0: none)
    secFault,    \* what is wrong with the secrets document, if anything
    file,        \* the games_played cursors in the configuration file
    initCursor,  \* the cursors of the file before the first run
    lockHolder,  \* the process holding the flock on process.lock (0: nobody)
    st,          \* per process: position in main(), locals, and the run's record
    pubLog,      \* per tracker: the game indices published, oldest first
    mIn,         \* metrics alone: the tracker's game index and season data
    mOut         \* metrics alone: what the iteration produced

vars == <<cfgFault, badTracker, secFault, file, initCursor, lockHolder,
          st, pubLog, mIn, mOut>>

envVars == <<cfgFault, badTracker, secFault, initCursor>>
metricVars == <<mIn, mOut>>

NoSeason == [played |-> 0, pending |-> 0, lossStreak |-> 0, r |-> 0, ra |-> 0]
NoCaption == [branch |-> "none", games |-> 0, wins |-> 0, margin |-> 0,
              altA |-> 0, altB |-> 0]

\* The cursors a configuration file may hold before the first run: every
\* tracker at game 9, but for at most one pair with a negative cursor or one
\* diff that has reached game 153.
UsualCursor == [t \in Trackers |-> 9]
InitialFiles ==
    {UsualCursor}
    \cup {[UsualCursor EXCEPT ![t] = IF IsPair(t) THEN -2 ELSE 153] : t \in Trackers}

\* The season snapshots the provider may return to the orchestration loop.
FetchedSeasons ==
    {[played |-> n, pending |-> 1, lossStreak |-> 3, r |-> 1, ra |-> 2] :
        n \in {8, 12, 163}}

ConfigFaults == {"none", "unreadable", "no_pairs", "no_diffs", "no_field"}
SecretFaults == {"none", "unreadable", "no_key"}

\* A process that has not started main().
Idle == [pc |-> "idle", config |-> <<>>, i |-> 0, games_played |-> 0,
         the_last |-> NoSeason, this_time |-> NoSeason, caption |-> NoCaption,
         exit |-> -1, message |-> FALSE,
         acquired |-> FALSE, contended |-> FALSE, loaded |-> <<>>,
         net |-> {}, pubOK |-> {}, skipped |-> {}, fetchFailedAt |-> 0,
         errAt |-> 0, saved |-> FALSE, releases |-> 0]

Init ==
    /\ cfgFault \in ConfigFaults
    /\ secFault \in SecretFaults
    /\ badTracker \in 0..NumTrackers
    /\ (badTracker # 0) <=> (cfgFault = "no_field")
    /\ cfgFault = "none" \/ secFault = "none"
    /\ file \in InitialFiles
    /\ (cfgFault # "none" \/ secFault # "none") => file = UsualCursor
    /\ initCursor = file
    /\ lockHolder = 0
    /\ st = [p \in Procs |-> Idle]
    /\ pubLog = [t \in Trackers |-> <<>>]
    /\ mIn = NoSeason
    /\ mOut = NoSeason

Set(p, s) == st' = [st EXCEPT ![p] = s]

\* What is left of a process that held the lock once it has ended: its exit
\* status and whether release_lock was called; its locals die with it.
Ended(s, status, released) ==
    [Idle EXCEPT !.pc = "exited", !.exit = status, !.acquired = s.acquired,
                 !.releases = released]

\* An exception reaches the handler at line 408 (which logs it).
Raise(s) == [s EXCEPT !.pc = "except"]

\* The process ends by an exception that leaves main(): the interpreter exits
\* with status 1 and the kernel drops the flock with the descriptor.
Die(s) == Ended(s, 1, s.releases)

\* -------------------------------------------------------------------- main
\* A lock that is never found held (the flock is not exclusive).
flock_never_blocks(holder) == FALSE

\* flock(LOCK_EX | LOCK_NB) raises BlockingIOError iff another holds the lock.
flock_would_block(holder) == holder # 0

\* A process starts main(): lines 289-293, up to the return of acquire_lock.
acquire_lock(p) ==
    /\ st[p].pc = "idle"
    /\ IF flock_would_block(lockHolder)
       THEN /\ Set(p, [st[p] EXCEPT !.pc = "exited", !.exit = EXIT_LOCKED,
                                    !.message = TRUE, !.contended = TRUE])
            /\ UNCHANGED lockHolder
       ELSE /\ lockHolder' = p
            /\ Set(p, [st[p] EXCEPT !.pc = "enable", !.acquired = TRUE])
    /\ UNCHANGED <<envVars, file, pubLog, metricVars>>

\* cache.enable() at line 297, outside the try block.
EnableCache(p) ==
    /\ st[p].pc = "enable"
    /\ \/ /\ Set(p, [st[p] EXCEPT !.pc = "load_config"])
          /\ UNCHANGED lockHolder
       \/ /\ Set(p, Die(st[p]))
          /\ lockHolder' = 0
    /\ UNCHANGED <<envVars, file, pubLog, metricVars>>

\* load_yaml(CONFIG_FILE)
LoadConfig(p) ==
    /\ st[p].pc = "load_config"
    /\ IF cfgFault = "unreadable"
       THEN Set(p, Raise(st[p]))
       ELSE Set(p, [st[p] EXCEPT !.pc = "load_secrets", !.config = file,
                                 !.loaded = file])
    /\ UNCHANGED <<envVars, file, lockHolder, pubLog, metricVars>>

\* load_yaml(SECRETS_FILE)
LoadSecrets(p) ==
    /\ st[p].pc = "load_secrets"
    /\ IF secFault = "unreadable"
       THEN Set(p, Raise(st[p]))
       ELSE Set(p, [st[p] EXCEPT !.pc = "login"])
    /\ UNCHANGED <<envVars, file, lockHolder, pubLog, metricVars>>

\* client.login(secrets['bluesky']['username'], secrets['bluesky']['password'])
Login(p) ==
    /\ st[p].pc = "login"
    /\ IF secFault = "no_key"
       THEN Set(p, Raise(st[p]))
       ELSE \/ Set(p, [st[p] EXCEPT !.pc = "for_pairs", !.net = @ \cup {"login"}])
            \/ Set(p, Raise([st[p] EXCEPT !.net = @ \cup {"login"}]))
    /\ UNCHANGED <<envVars, file, lockHolder, pubLog, metricVars>>

\* for pair in config['pairs']
ForPairs(p) ==
    /\ st[p].pc = "for_pairs"
    /\ IF cfgFault = "no_pairs"
       THEN Set(p, Raise(st[p]))
       ELSE Set(p, [st[p] EXCEPT !.pc = "fetch", !.i = 1])
    /\ UNCHANGED <<envVars, file, lockHolder, pubLog, metricVars>>

\* for diff in config['diffs']
ForDiffs(p) ==
    /\ st[p].pc = "for_diffs"
    /\ IF cfgFault = "no_diffs"
       THEN Set(p, Raise(st[p]))
       ELSE Set(p, [st[p] EXCEPT !.pc = "fetch", !.i = NumPairs + 1])
    /\ UNCHANGED <<envVars, file, lockHolder, pubLog, metricVars>>

\* The end of one iteration: the next pair, the diffs, the next diff, or the save.
NextIteration(s) ==
    [s EXCEPT !.pc = IF s.i = NumPairs THEN "for_diffs"
                     ELSE IF s.i = NumTrackers THEN "save" ELSE "fetch",
              !.i = IF s.i = NumPairs \/ s.i = NumTrackers THEN s.i ELSE s.i + 1,
              !.the_last = NoSeason, !.this_time = NoSeason]

\* Lines 317-334 and 359-370: the tracker's fields are read, the season data
\* fetched, and the local games_played set to the cursor plus one.
Fetch(p) ==
    /\ st[p].pc = "fetch"
    /\ IF badTracker = st[p].i
       THEN Set(p, Raise([st[p] EXCEPT !.errAt = st[p].i]))
       ELSE \/ Set(p, Raise([st[p] EXCEPT !.net = @ \cup {"fetch"},
                                         !.fetchFailedAt = st[p].i,
                                         !.errAt = st[p].i]))
            \/ \E a \in FetchedSeasons, b \in FetchedSeasons :
                  /\ ~IsPair(st[p].i) => a = b
                  /\ Set(p, [st[p] EXCEPT !.pc = "check",
                                !.net = @ \cup {"fetch"},
                                !.the_last = a, !.this_time = b,
                                !.games_played = st[p].config[st[p].i] + 1])
    /\ UNCHANGED <<envVars, file, lockHolder, pubLog, metricVars>>

\* Lines 337-339 and 373-375.
RangeCheck(p) ==
    /\ st[p].pc = "check"
    /\ LET s == st[p]
           out == IF IsPair(s.i)
                  THEN PairOutOfRange(s.games_played, schedule_and_record(s.the_last),
                                      schedule_and_record(s.this_time))
                  ELSE DiffOutOfRange(s.games_played, schedule_and_record(s.the_last))
       IN IF out
          THEN Set(p, NextIteration([s EXCEPT !.skipped = @ \cup {s.i}]))
          ELSE Set(p, [s EXCEPT !.pc = "generate"])
    /\ UNCHANGED <<envVars, file, lockHolder, pubLog, metricVars>>

\* generate_plot (line 343) or generate_chart (line 379).
Generate(p) ==
    /\ st[p].pc = "generate"
    /\ LET s == st[p]
       IN IF IsPair(s.i)
          THEN LET plot == generate_plot(s.games_played,
                                         schedule_and_record(s.the_last),
                                         schedule_and_record(s.this_time))
               IN Set(p, [s EXCEPT !.pc = "post",
                             !.caption = post_plot_caption(s.games_played,
                                             plot.y1_last, plot.y2_last)])
          ELSE IF generate_chart(schedule_and_record(s.the_last),
                                 s.games_played).status = "TypeError"
               THEN Set(p, Raise([s EXCEPT !.errAt = s.i]))
               ELSE Set(p, [s EXCEPT !.pc = "post"])
    /\ UNCHANGED <<envVars, file, lockHolder, pubLog, metricVars>>

\* client.send_image, inside post_plot_to_bluesky / post_chart_to_bluesky.
Post(p) ==
    /\ st[p].pc = "post"
    /\ LET s == [st[p] EXCEPT !.net = @ \cup {"publish"}]
       IN \/ /\ Set(p, [s EXCEPT !.pc = "advance", !.pubOK = @ \cup {s.i}])
             /\ pubLog' = [pubLog EXCEPT ![s.i] = Append(@, s.games_played)]
          \/ /\ Set(p, Raise([s EXCEPT !.errAt = s.i]))
             /\ UNCHANGED pubLog
    /\ UNCHANGED <<envVars, file, lockHolder, metricVars>>

\* The cursor is set from a local games_played that was incremented already.
AdvanceCursorTwice(cursor) == cursor + 2

\* The cursor a tracker has after pair['games_played'] += 1.
AdvanceCursor(cursor) == cursor + 1

\* Lines 349-355 and 395-401: the sleep, then the cursor is incremented.
Advance(p) ==
    /\ st[p].pc = "advance"
    /\ LET s == st[p]
       IN Set(p, NextIteration(
                    [s EXCEPT !.config[s.i] = AdvanceCursor(s.config[s.i])]))
    /\ UNCHANGED <<envVars, file, lockHolder, pubLog, metricVars>>

\* save_yaml(config, CONFIG_FILE); open() may fail, leaving the file as it is.
SaveConfig(p) ==
    /\ st[p].pc = "save"
    /\ \/ /\ file' = st[p].config
          /\ Set(p, [st[p] EXCEPT !.pc = "finally", !.saved = TRUE])
       \/ /\ Set(p, Raise(st[p]))
          /\ UNCHANGED file
    /\ UNCHANGED <<envVars, lockHolder, pubLog, metricVars>>

\* except Exception as e: logging.error(...)
Except(p) ==
    /\ st[p].pc = "except"
    /\ Set(p, [st[p] EXCEPT !.pc = "finally"])
    /\ UNCHANGED <<envVars, file, lockHolder, pubLog, metricVars>>

\* finally: flush_this_year(); an exception in it leaves main().
FlushThisYear(p) ==
    /\ st[p].pc = "finally"
    /\ \/ /\ Set(p, [st[p] EXCEPT !.pc = "release"])
          /\ UNCHANGED lockHolder
       \/ /\ Set(p, Die(st[p]))
          /\ lockHolder' = 0
    /\ UNCHANGED <<envVars, file, pubLog, metricVars>>

\* release_lock(lock), then main() returns and the process ends.
release_lock(p) ==
    /\ st[p].pc = "release"
    /\ lockHolder' = 0
    /\ Set(p, Ended(st[p], 0, st[p].releases + 1))
    /\ UNCHANGED <<envVars, file, pubLog, metricVars>>

Next ==
    \E p \in Procs :
        \/ acquire_lock(p)
        \/ EnableCache(p)
        \/ LoadConfig(p)
        \/ LoadSecrets(p)
        \/ Login(p)
        \/ ForPairs(p)
        \/ ForDiffs(p)
        \/ Fetch(p)
        \/ RangeCheck(p)
        \/ Generate(p)
        \/ Post(p)
        \/ Advance(p)
        \/ SaveConfig(p)
        \/ Except(p)
        \/ FlushThisYear(p)
        \/ release_lock(p)

Spec == Init /\ [][Next]_vars

\* ---------------------------------------------- the metrics functions alone
\* One tracker's iteration from the range check to the caption or the table,
\* on seasons and game indices drawn from the sets below.
MetricSeasons ==
    {[played |-> n, pending |-> k, lossStreak |-> l, r |-> x[1], ra |-> x[2]] :
        n \in {100, LongestSeason}, k \in {0, 1}, l \in {37, 39},
        x \in {<<1, 2>>, <<2, 1>>, <<0, 0>>}}

CaptionSeasons == {s \in MetricSeasons : s.r = 1 /\ s.pending = 0}

GameIndices == 0..(LongestSeason + 1)

Pending == [status |-> "pending"]

MetricsInit ==
    /\ cfgFault = "none"
    /\ badTracker = 0
    /\ secFault = "none"
    /\ file = UsualCursor
    /\ initCursor = file
    /\ lockHolder = 0
    /\ st = [p \in Procs |-> Idle]
    /\ pubLog = [t \in Trackers |-> <<>>]
    /\ \/ mIn \in {[op |-> "diff", games_played |-> g, the_last |-> a, this_time |-> a] :
                        g \in GameIndices, a \in MetricSeasons}
       \/ mIn \in {[op |-> "pair", games_played |-> g, the_last |-> a, this_time |-> b] :
                        g \in GameIndices, a \in CaptionSeasons, b \in CaptionSeasons}
    /\ mOut = Pending

MetricsOutOfRange ==
    IF mIn.op = "pair"
    THEN PairOutOfRange(mIn.games_played, schedule_and_record(mIn.the_last),
                        schedule_and_record(mIn.this_time))
    ELSE DiffOutOfRange(mIn.games_played, schedule_and_record(mIn.the_last))

\* The range check fails: the tracker is skipped.
SkipTracker ==
    /\ mOut = Pending
    /\ MetricsOutOfRange
    /\ mOut' = [status |-> "skipped"]
    /\ UNCHANGED <<envVars, file, lockHolder, st, pubLog, mIn>>

\* generate_plot and the caption of post_plot_to_bluesky for a pair in range.
PlotAndCaption ==
    /\ mOut = Pending
    /\ mIn.op = "pair"
    /\ ~MetricsOutOfRange
    /\ LET plot == generate_plot(mIn.games_played, schedule_and_record(mIn.the_last),
                                 schedule_and_record(mIn.this_time))
       IN mOut' = [status |-> "posted",
                   caption |-> post_plot_caption(mIn.games_played, plot.y1_last,
                                                 plot.y2_last)]
    /\ UNCHANGED <<envVars, file, lockHolder, st, pubLog, mIn>>

\* generate_chart for a diff in range.
Chart ==
    /\ mOut = Pending
    /\ mIn.op = "diff"
    /\ ~MetricsOutOfRange
    /\ mOut' = generate_chart(schedule_and_record(mIn.the_last), mIn.games_played)
    /\ UNCHANGED <<envVars, file, lockHolder, st, pubLog, mIn>>

MetricsNext == SkipTracker \/ PlotAndCaption \/ Chart

MetricsSpec == MetricsInit /\ [][MetricsNext]_vars

\* ------------------------------------------------------------------ claims
\* The positions of main() after acquire_lock has returned.
PastAcquire ==
    {"enable", "load_config", "load_secrets", "login", "for_pairs", "for_diffs",
     "fetch", "check", "generate", "post", "advance", "save", "except", "finally",
     "release"}

\* The positions of main() where the run's work is over and the lock still held.
RunOver == {"finally", "release"}

\* C1: at most one process is past acquire_lock() at a time, and a process
\* that found the lock held has ended at once with exit status 1 and a
\* message, having loaded no configuration, made no network call and
\* written no configuration file.
C1_SingleInstance ==
    /\ Cardinality({p \in Procs : st[p].pc \in PastAcquire}) <= 1
    /\ \A p \in Procs :
          st[p].contended =>
              /\ st[p].pc = "exited"
              /\ st[p].exit = 1
              /\ st[p].message
              /\ ~st[p].acquired
              /\ st[p].loaded = <<>>
              /\ st[p].net = {}
              /\ ~st[p].saved

\* C1 witness: one process is publishing while another has found the lock held.
C1_Witness ==
    \E p \in Procs, q \in Procs : st[p].pc = "post" /\ st[q].contended

C3_SerializedNarrative ==
    \A t \in Trackers :
        /\ \A k \in 1..Len(pubLog[t]) : pubLog[t][k] = initCursor[t] + k
        /\ (\A p \in Procs : st[p].pc \in PastAcquire => st[p].pc \in RunOver) =>
              file[t] = initCursor[t] + Len(pubLog[t])

\* Whether the requested game of the tracker under the range check is below 1
\* or beyond the completed games of a season record fetched for it.
RequestedGameOutOfRange(s) ==
    \/ s.games_played < 1
    \/ s.games_played > s.the_last.played
    \/ IsPair(s.i) /\ s.games_played > s.this_time.played

\* C4: a tracker whose requested game is out of range gets no publish call,
\* keeps its cursor, and the run goes on with the next tracker (or the save).
C4_OutOfRangeSkipped ==
    /\ [](\A p \in Procs : \A t \in st[p].skipped :
              /\ t \notin st[p].pubOK
              /\ st[p].config[t] = st[p].loaded[t]
              /\ st[p].i = t => st[p].pc \notin {"generate", "post", "advance"})
    /\ [][\A p \in Procs :
              (st[p].pc = "check" /\ RequestedGameOutOfRange(st[p])
                 /\ st'[p] # st[p]) =>
                  /\ st'[p].pc \in {"fetch", "for_diffs", "save"}
                  /\ st'[p].skipped = st[p].skipped \cup {st[p].i}
                  /\ st'[p].config = st[p].config
                  /\ st'[p].net = st[p].net
                  /\ pubLog' = pubLog
                  /\ file' = file]_vars

\* C4 witness: the first pair, at cursor 9, was skipped and kept its cursor,
\* and the run has gone on to publish for the second pair.
C4_Witness ==
    \E p \in Procs :
        /\ 1 \in st[p].skipped
        /\ st[p].config[1] = 9
        /\ st[p].i = 2
        /\ st[p].pc = "post"

\* C5: after a failed fetch for one tracker the run still gets to the last
\* tracker and saves the configuration.
C5_FetchFailureSkipsOneTracker ==
    \A p \in Procs :
        (st[p].fetchFailedAt # 0 /\ st[p].pc \in RunOver) =>
            /\ st[p].saved
            /\ st[p].i = NumTrackers

\* C6: when an exception ended the loop at tracker k, the configuration file
\* after the run holds cursor + 1 for every tracker published before it and
\* the loaded cursor for the others.
C6_FileReflectsCompletedTrackers ==
    \A p \in Procs :
        (st[p].errAt # 0 /\ st[p].pc \in RunOver) =>
            \A t \in Trackers :
                file[t] = st[p].loaded[t] + (IF t \in st[p].pubOK THEN 1 ELSE 0)

\* C7: with a missing or malformed configuration or secrets document
\* (a missing key included) no run makes a network call: no login, no fetch,
\* no publish.
C7_ConfigErrorBeforeNetwork ==
    (cfgFault # "none" \/ secFault # "none") =>
        \A p \in Procs : st[p].net = {}

\* C8: a process that acquired the lock has called release_lock exactly once
\* when it ends, and one that did not acquire it has never called it.
C8_ReleaseExactlyOnce ==
    \A p \in Procs :
        /\ st[p].pc = "exited" /\ st[p].acquired => st[p].releases = 1
        /\ ~st[p].acquired => st[p].releases = 0

Max(a, b) == IF a > b THEN a ELSE b

\* C9: for every game index in range generate_chart produces a report whose
\* games remaining are max(162 - g, 0) and max(154 - g, 0), each required
\* differential being a number exactly when its games remaining are not 0.
C9_ReportForEveryGameInRange ==
    (mIn.op = "diff" /\ mOut.status \notin {"pending", "skipped"}) =>
        /\ mOut.status = "ok"
        /\ mOut.g_remaining_162 = Max(TOTAL_GAMES_MODERN - mIn.games_played, 0)
        /\ mOut.g_remaining_154 = Max(TOTAL_GAMES_OLDEN - mIn.games_played, 0)
        /\ (mOut.rd_match_2023OAK.status = "ok") <=> (mOut.g_remaining_162 # 0)
        /\ (mOut.rd_match_1932BOS_154.status = "ok") <=> (mOut.g_remaining_162 # 0)
        /\ (mOut.rd_match_1932BOS.status = "ok") <=> (mOut.g_remaining_154 # 0)

\* C10: for every pair and game index that pass the range check the caption
\* carries each season's cumulative wins at that game and takes the branch
\* those two win counts fix, with their difference as the margin.
C10_CaptionFollowsWins ==
    (mIn.op = "pair" /\ mOut.status = "posted") =>
        LET winsA == SeasonWins(mIn.the_last, mIn.games_played)
            winsB == SeasonWins(mIn.this_time, mIn.games_played)
            c == mOut.caption
        IN /\ c.games = mIn.games_played
           /\ c.altA = winsA
           /\ c.altB = winsB
           /\ winsA > winsB =>
                 c.branch = "worse" /\ c.wins = winsB /\ c.margin = winsA - winsB
           /\ winsA < winsB =>
                 c.branch = "ahead" /\ c.wins = winsB /\ c.margin = winsB - winsA
           /\ winsA = winsB => c.branch = "neutral" /\ c.wins = winsA

====
